---- MODULE Spec2Model ----
(***************************************************************************)
(* Dotulous: the profile load / unload / reload lifecycle and the Meta     *)
(* bookkeeping that guards it (src/src/main.rs, profile.rs, meta.rs).      *)
(*                                                                         *)
(* A path is the sequence of its components, the way std::path::Path       *)
(* compares paths: "/" is the component <<"/">>, the empty relative path   *)
(* is <<>>.  Option<T> is a sequence of length 0 (None) or 1 (Some).       *)
(***************************************************************************)
EXTENDS Integers, Sequences, FiniteSets, TLC

VARIABLES
    manifests,  \* profile directory name -> what find_profile finds there
    repoFiles,  \* the source files that exist inside the profile directories
    home,       \* tracked location -> node of the filesystem
    meta,       \* the content of <dotulous>/meta.json
    applied,    \* repo paths whose load_to_system ran and was not unloaded since
    last,       \* the last invocation: operation, outcome, event log, pre-state
    steps,      \* number of invocations so far
    edits       \* number of edits of the operator so far

vars == <<manifests, repoFiles, home, meta, applied, last, steps, edits>>

----------------------------------------------------------------------------
(* Bounds *)

MaxSteps == 2
MaxEdits == 1

----------------------------------------------------------------------------
(* Paths *)

Root == <<"/">>
HomePath == <<"/", "home">>
DotulousPath == HomePath \o <<".dotulous">>

\* Path::join: an absolute argument replaces the base.
Join(base, rel) ==
    IF rel # <<>> /\ rel[1] = "/" THEN rel ELSE base \o rel

IsPrefix(p, q) ==
    /\ Len(p) <= Len(q)
    /\ \A i \in 1..Len(p) : p[i] = q[i]

\* sanitize_filename::sanitize: path separators are stripped from the name.
Sanitize(name) ==
    CASE name = "wo/rk" -> "work"
      [] OTHER -> name

Dirs == {"work", "play"}
Names == {"work", "play"}

RepoPath(dir) == Join(DotulousPath, <<dir>>)
ManifestPath(repo) == Join(repo, <<"manifest.json">>)

\* The relative destinations the manifests of this model use.
DBashrc == <<".bashrc">>
DVimrc == <<".vimrc">>
DAbsBashrc == <<"/", ".bashrc">>
DEmpty == <<>>
DRoot == <<"/">>
DNested == <<".vimrc", "bashrc">>
DParentHome == <<"..", "home">>

\* Where DNested lands when <home>/.vimrc is a symlink to the directory
\* "vimrc" of the profile directory `dir`.
NestedInRepo(dir) == RepoPath(dir) \o <<"vimrc", "bashrc">>

\* The locations of the filesystem the model tracks.
Locs ==
    { Root, HomePath, Join(HomePath, DBashrc), Join(HomePath, DVimrc),
      Join(HomePath, DAbsBashrc), Join(HomePath, DNested),
      NestedInRepo("work") }

----------------------------------------------------------------------------
(* Filesystem nodes *)

Absent == [kind |-> "absent", target |-> <<>>]
RegularFile == [kind |-> "file", target |-> <<>>]
Directory == [kind |-> "dir", target |-> <<>>]
Symlink(src) == [kind |-> "link", target |-> src]

\* A path inside a profile directory is a directory when files lie below it.
IsRepoDir(rf, loc) ==
    \E f \in rf : IsPrefix(loc, f) /\ Len(f) > Len(loc)

\* The node at a location: a tracked one, or a file or directory of a
\* profile directory (all of them lie below home_path).
NodeAt(fs, rf, loc) ==
    IF loc \in Locs /\ fs[loc].kind # "absent" THEN fs[loc]
    ELSE IF fs[HomePath].kind # "dir" THEN Absent
    ELSE IF loc \in rf THEN RegularFile
    ELSE IF IsRepoDir(rf, loc) THEN Directory
    ELSE Absent

Parent(loc) == IF Len(loc) <= 1 THEN loc ELSE SubSeq(loc, 1, Len(loc) - 1)

\* Path resolution by the operating system, component i onwards, `cur` being
\* the directory reached so far: ".." goes up, a symlink on the way is
\* followed, the last component is the entry the path names.
RECURSIVE Walk(_, _, _, _, _)
RECURSIVE WalkInto(_, _, _, _, _)

\* Where a directory entry leads: the target of a symlink, else the entry.
TargetOf(loc, n) == IF n.kind = "link" THEN n.target ELSE loc

\* The walk goes on below `dir` when that is a directory and stops otherwise.
WalkInto(fs, rf, path, i, dir) ==
    IF NodeAt(fs, rf, dir).kind = "dir" THEN Walk(fs, rf, path, i + 1, dir)
    ELSE [ok |-> FALSE, loc |-> dir]

Walk(fs, rf, path, i, cur) ==
    IF i > Len(path) THEN [ok |-> TRUE, loc |-> cur]
    ELSE IF path[i] = ".." THEN Walk(fs, rf, path, i + 1, Parent(cur))
    ELSE IF i = Len(path) THEN [ok |-> TRUE, loc |-> cur \o <<path[i]>>]
    ELSE WalkInto(fs, rf, path, i,
                  TargetOf(cur \o <<path[i]>>,
                           NodeAt(fs, rf, cur \o <<path[i]>>)))

\* The location an absolute path names, when its directories exist.
Resolve(fs, rf, path) ==
    IF fs[Root].kind # "dir" THEN [ok |-> FALSE, loc |-> Root]
    ELSE Walk(fs, rf, path, 2, Root)

\* The node behind a directory entry, a symlink followed.
NodeBehind(fs, rf, n) ==
    IF n.kind = "link" THEN NodeAt(fs, rf, n.target) ELSE n

\* fs::metadata of a resolved path: what the path leads to, symlinks
\* followed; Absent stands for the error it returns.
Metadata(fs, rf, r) ==
    IF r.ok THEN NodeBehind(fs, rf, NodeAt(fs, rf, r.loc)) ELSE Absent

\* Path::exists follows symbolic links: a dangling link does not exist.
Exists(fs, rf, path) ==
    Metadata(fs, rf, Resolve(fs, rf, path)).kind # "absent"

\* Path::is_dir follows symbolic links too.
IsDir(fs, rf, path) ==
    Metadata(fs, rf, Resolve(fs, rf, path)).kind = "dir"

\* fs::remove_dir_all: the directory and everything below it.
RECURSIVE RemoveEach(_, _)
RemoveEach(fs, locs) ==
    IF locs = {} THEN fs
    ELSE LET l == CHOOSE x \in locs : TRUE
         IN  RemoveEach([fs EXCEPT ![l] = Absent], locs \ {l})

\* ... a symlink to a directory is not followed: the link itself goes.
RemoveDirAll(fs, loc) ==
    IF fs[loc].kind = "link" THEN [fs EXCEPT ![loc] = Absent]
    ELSE RemoveEach(fs, { l \in Locs : IsPrefix(loc, l) })

\* fs::remove_file: the one entry (a link is removed, not its target).
RemoveFile(fs, loc) ==
    [fs EXCEPT ![loc] = Absent]

----------------------------------------------------------------------------
(* Events of the log of one invocation *)

CmdEvent(c, res) == [ev |-> "cmd", cmd |-> c, loc |-> <<>>, res |-> res]
FileEvent(e, loc, res) == [ev |-> e, cmd |-> "", loc |-> loc, res |-> res]

Outcomes == {"ok", "nonzero", "spawnfail"}

\* One command loop of profile.rs, command i onwards: Command::output() is
\* Err only when the spawn fails, and then `command.unwrap()` panics; a
\* non-zero exit is Ok(Output) and the loop goes on.
RECURSIVE CommandLoop(_, _, _, _)
CommandLoop(cmds, out, i, log) ==
    IF i > Len(cmds) THEN [log |-> log, panicked |-> FALSE]
    ELSE IF out[cmds[i]] = "spawnfail"
    THEN [log |-> Append(log, CmdEvent(cmds[i], "spawnfail")), panicked |-> TRUE]
    ELSE CommandLoop(cmds, out, i + 1, Append(log, CmdEvent(cmds[i], out[cmds[i]])))

RunCommands(cmds, out) == CommandLoop(cmds, out, 1, <<>>)

----------------------------------------------------------------------------
(* Profiles *)

FileEntry(src, dst) == [src |-> <<src>>, dst |-> dst]

\* The orders in which a HashMap with these entries can be iterated.
Orders(files) ==
    { o \in [1..Cardinality(files) -> files] :
        \A i, j \in 1..Cardinality(files) : o[i] = o[j] => i = j }

\* The destinations of a profile's entries, under home_path.
Destinations(p) == { Join(HomePath, e.dst) : e \in p.files }

\* The commands a profile can run.
CommandsOf(p) ==
    { p.pre_commands[i] : i \in 1..Len(p.pre_commands) }
    \cup { p.post_commands[i] : i \in 1..Len(p.post_commands) }
    \cup { p.removal_commands[i] : i \in 1..Len(p.removal_commands) }

----------------------------------------------------------------------------
(* Profile Engine: DotfileProfile::load_profile_to_system *)

\* The symlink loop with a forced link (ln -sf): only a directory at the
\* destination is skipped, a file or a symlink there is replaced.
RECURSIVE LinkPhaseReplacing(_, _, _, _, _, _, _)
LinkPhaseReplacing(p, order, i, fs, rf, ioFail, log) ==
    IF i > Len(order) THEN [fs |-> fs, log |-> log]
    ELSE
        LET source == Join(p.repo_path, order[i].src)
            destination == Join(HomePath, order[i].dst)
            at == Resolve(fs, rf, destination)
        IN  IF IsDir(fs, rf, destination)
            THEN LinkPhaseReplacing(p, order, i + 1, fs, rf, ioFail,
                           Append(log, FileEvent("link", destination, "skipped")))
            ELSE IF ~at.ok \/ destination \in ioFail
            THEN LinkPhaseReplacing(p, order, i + 1, fs, rf, ioFail,
                           Append(log, FileEvent("link", destination, "failed")))
            ELSE LinkPhaseReplacing(p, order, i + 1,
                           [fs EXCEPT ![at.loc] = Symlink(source)],
                           rf, ioFail,
                           Append(log, FileEvent("link", destination, "ok")))

\* The symlink loop leaving at the first symlink() error (`?` in place of
\* the logged error): the entries after it are not attempted.
RECURSIVE LinkPhaseReturningOnError(_, _, _, _, _, _, _)
LinkPhaseReturningOnError(p, order, i, fs, rf, ioFail, log) ==
    IF i > Len(order) THEN [fs |-> fs, log |-> log]
    ELSE
        LET source == Join(p.repo_path, order[i].src)
            destination == Join(HomePath, order[i].dst)
            at == Resolve(fs, rf, destination)
        IN  IF Exists(fs, rf, destination)
            THEN LinkPhaseReturningOnError(p, order, i + 1, fs, rf, ioFail,
                           Append(log, FileEvent("link", destination, "skipped")))
            ELSE IF \/ ~at.ok
                    \/ NodeAt(fs, rf, at.loc).kind # "absent"
                    \/ destination \in ioFail
            THEN [fs |-> fs,
                  log |-> Append(log, FileEvent("link", destination, "failed"))]
            ELSE LinkPhaseReturningOnError(p, order, i + 1,
                           [fs EXCEPT ![at.loc] = Symlink(source)],
                           rf, ioFail,
                           Append(log, FileEvent("link", destination, "ok")))

\* The symlink loop, entry i of the iteration order onwards.
RECURSIVE LinkPhase(_, _, _, _, _, _, _)
LinkPhase(p, order, i, fs, rf, ioFail, log) ==
    IF i > Len(order) THEN [fs |-> fs, log |-> log]
    ELSE
        LET source == Join(p.repo_path, order[i].src)
            destination == Join(HomePath, order[i].dst)
            at == Resolve(fs, rf, destination)
        IN  IF Exists(fs, rf, destination)
            THEN LinkPhase(p, order, i + 1, fs, rf, ioFail,
                           Append(log, FileEvent("link", destination, "skipped")))
            ELSE IF \/ ~at.ok
                    \/ NodeAt(fs, rf, at.loc).kind # "absent"
                    \/ destination \in ioFail
            THEN \* symlink() returns an error (ENOENT without the parent
                 \* directory, EEXIST on a dangling link, EACCES, ...):
                 \* logged, the loop goes on
                 LinkPhase(p, order, i + 1, fs, rf, ioFail,
                           Append(log, FileEvent("link", destination, "failed")))
            ELSE LinkPhase(p, order, i + 1,
                           [fs EXCEPT ![at.loc] = Symlink(source)],
                           rf, ioFail,
                           Append(log, FileEvent("link", destination, "ok")))

\* The post commands follow the symlink loop.
ThenPostCommands(links, post) ==
    [fs |-> links.fs, log |-> links.log \o post.log, panicked |-> post.panicked]

LoadToSystem(p, order, out, ioFail, fs, rf) ==
    LET pre == RunCommands(p.pre_commands, out)
    IN  IF pre.panicked
        THEN [fs |-> fs, log |-> pre.log, panicked |-> TRUE]
        ELSE ThenPostCommands(LinkPhase(p, order, 1, fs, rf, ioFail, pre.log),
                              RunCommands(p.post_commands, out))

----------------------------------------------------------------------------
(* Profile Engine: DotfileProfile::unload_profile_from_system *)

\* The "very basic protection": the two assert! of the directory branch.
ProtectedPath(destination) ==
    destination = Root \/ destination = HomePath

\* The removal loop, entry i of the iteration order onwards.
RECURSIVE RemovePhase(_, _, _, _, _, _)
RemovePhase(order, i, fs, rf, ioFail, log) ==
    IF i > Len(order) THEN [fs |-> fs, log |-> log, panicked |-> FALSE]
    ELSE
        LET destination == Join(HomePath, order[i].dst)
            at == Resolve(fs, rf, destination)
        IN  IF ~Exists(fs, rf, destination)
            THEN RemovePhase(order, i + 1, fs, rf, ioFail,
                             Append(log, FileEvent("remove", destination, "skipped")))
            ELSE IF IsDir(fs, rf, destination)
            THEN IF ProtectedPath(destination)
                 THEN [fs |-> fs,
                       log |-> Append(log, FileEvent("remove", destination, "assert")),
                       panicked |-> TRUE]
                 ELSE IF destination \in ioFail
                 THEN RemovePhase(order, i + 1, fs, rf, ioFail,
                                  Append(log, FileEvent("remove", destination, "failed")))
                 ELSE RemovePhase(order, i + 1, RemoveDirAll(fs, at.loc),
                                  rf, ioFail,
                                  Append(log, FileEvent("remove", destination, "ok")))
            ELSE IF destination \in ioFail
            THEN RemovePhase(order, i + 1, fs, rf, ioFail,
                             Append(log, FileEvent("remove", destination, "failed")))
            ELSE RemovePhase(order, i + 1, RemoveFile(fs, at.loc),
                             rf, ioFail,
                             Append(log, FileEvent("remove", destination, "ok")))

\* The removal commands follow the loop unless an assert! stopped it.
ThenRemovalCommands(removed, cmds) ==
    IF removed.panicked
    THEN removed
    ELSE [fs |-> removed.fs, log |-> removed.log \o cmds.log,
          panicked |-> cmds.panicked]

UnloadFromSystem(p, order, out, ioFail, fs, rf) ==
    ThenRemovalCommands(RemovePhase(order, 1, fs, rf, ioFail, <<>>),
                        RunCommands(p.removal_commands, out))

----------------------------------------------------------------------------
(* Manifest Store: DotfileProfile::new, from_manifest, find_profile *)

Profile(name, repo, files, pre, post, removal) ==
    [ name |-> name,
      manifest_path |-> ManifestPath(repo),
      repo_path |-> repo,
      files |-> files,
      pre_commands |-> pre,
      post_commands |-> post,
      removal_commands |-> removal ]

\* DotfileProfile::new: no files, no commands.
NewProfile(name, path) == Profile(name, path, {}, <<>>, <<>>, <<>>)

\* The manifest contents the profile directories of this model can hold.
\* The scenario of the specification: one entry, destination "/.bashrc".
MScenario(dir) ==
    Profile(dir, RepoPath(dir), {FileEntry("bashrc", DAbsBashrc)}, <<>>, <<>>, <<>>)
\* Two plain entries.
MPlain(dir) ==
    Profile(dir, RepoPath(dir),
            {FileEntry("bashrc", DBashrc), FileEntry("vimrc", DVimrc)},
            <<>>, <<>>, <<>>)
\* One entry and commands in every list.
MCommands(dir) ==
    Profile(dir, RepoPath(dir), {FileEntry("vimrc", DVimrc)},
            <<"pre1", "pre2">>, <<"post1">>, <<"rm1", "rm2">>)
\* A valid entry and one whose destination is home_path itself.
MHome(dir) ==
    Profile(dir, RepoPath(dir),
            {FileEntry("bashrc", DBashrc), FileEntry("vimrc", DEmpty)},
            <<>>, <<>>, <<>>)
\* A valid entry and one whose destination is the filesystem root.
MRoot(dir) ==
    Profile(dir, RepoPath(dir),
            {FileEntry("vimrc", DVimrc), FileEntry("bashrc", DRoot)},
            <<>>, <<>>, <<>>)

\* A path as the text serde writes for a PathBuf: the components with "/"
\* between them, the root written once.
RECURSIVE PathToStr(_)
PathToStr(path) ==
    IF path = <<>> THEN <<>>
    ELSE IF Len(path) = 1 THEN path
    ELSE IF path[1] = "/" THEN <<"/">> \o PathToStr(Tail(path))
    ELSE <<path[1], "/">> \o PathToStr(Tail(path))

IsSeparator(token) == token = "/"
IsComponent(token) == token # "/"

\* The PathBuf serde reads from such a text, as Path compares it: the root
\* when the text starts with "/", then the components between separators.
StrToPath(str) ==
    (IF str # <<>> /\ IsSeparator(str[1]) THEN <<"/">> ELSE <<>>)
        \o SelectSeq(str, IsComponent)

\* serde_json::to_string_pretty(&profile): the fields as JSON values, the
\* files map as the key/value pairs in the order the HashMap yields them.
Serialize(p, order) ==
    [ name |-> p.name,
      manifest_path |-> PathToStr(p.manifest_path),
      repo_path |-> PathToStr(p.repo_path),
      files |-> [i \in 1..Len(order) |->
                    <<PathToStr(order[i].src), PathToStr(order[i].dst)>>],
      pre_commands |-> p.pre_commands,
      post_commands |-> p.post_commands,
      removal_commands |-> p.removal_commands ]

\* serde_json::from_str::<DotfileProfile>: the pairs are inserted into a
\* HashMap one after the other, a later pair replaces an earlier one with
\* the same key.
Deserialize(doc) ==
    [ name |-> doc.name,
      manifest_path |-> StrToPath(doc.manifest_path),
      repo_path |-> StrToPath(doc.repo_path),
      files |-> { [src |-> StrToPath(doc.files[i][1]),
                   dst |-> StrToPath(doc.files[i][2])] :
                  i \in { j \in 1..Len(doc.files) :
                            \A k \in (j + 1)..Len(doc.files) :
                                StrToPath(doc.files[k][1]) # StrToPath(doc.files[j][1]) } },
      pre_commands |-> doc.pre_commands,
      post_commands |-> doc.post_commands,
      removal_commands |-> doc.removal_commands ]

Contents(dir) ==
    { NewProfile(dir, RepoPath(dir)), MScenario(dir), MPlain(dir),
      MCommands(dir), MHome(dir), MRoot(dir) }

\* What a profile directory holds: status "ok" with the serialized record,
\* or one of the ways from_manifest / find_profile fail.
OnDisk(status, content) == [status |-> status, content |-> content]

\* A readable manifest.json holding profile p.
ManifestFile(p) ==
    OnDisk("ok", Serialize(p, CHOOSE order \in Orders(p.files) : TRUE))

\* A profile directory without a readable manifest.
NoManifestFile(status, dir) ==
    OnDisk(status, Serialize(NewProfile(dir, RepoPath(dir)), <<>>))

FailureStatuses == {"nodir", "nomanifest", "unreadable", "corrupt"}

ManifestStates(dir) ==
    { ManifestFile(c) : c \in Contents(dir) }
    \cup { NoManifestFile(st, dir) : st \in FailureStatuses }

Ok(v) == [ok |-> TRUE, err |-> "", val |-> v]
Err(e, v) == [ok |-> FALSE, err |-> e, val |-> v]

\* The directory a profile path names inside the dotulous folder.
DirOf(profile_path) == profile_path[Len(profile_path)]

\* from_manifest without the two assignments after the deserialization: the
\* paths are the ones the file carries.
FromManifestAsSerialized(mf, profile_path) ==
    LET disk == mf[DirOf(profile_path)]
    IN  CASE disk.status \in {"nodir", "nomanifest"} ->
                Err("NoManifestInProfile", NewProfile("", profile_path))
          [] disk.status = "unreadable" ->
                Err("FailedReadManifest", NewProfile("", profile_path))
          [] disk.status = "corrupt" ->
                Err("FailedDeserializeManifest", NewProfile("", profile_path))
          [] OTHER -> Ok(Deserialize(disk.content))

FromManifest(mf, profile_path) ==
    LET manifest_path == Join(profile_path, <<"manifest.json">>)
        disk == mf[DirOf(profile_path)]
    IN  CASE disk.status \in {"nodir", "nomanifest"} ->
                Err("NoManifestInProfile", NewProfile("", profile_path))
          [] disk.status = "unreadable" ->
                Err("FailedReadManifest", NewProfile("", profile_path))
          [] disk.status = "corrupt" ->
                Err("FailedDeserializeManifest", NewProfile("", profile_path))
          [] OTHER ->
                Ok([Deserialize(disk.content) EXCEPT
                                        !.manifest_path = manifest_path,
                                        !.repo_path = profile_path])

FindProfile(mf, profile_name) ==
    LET folder_name == Sanitize(profile_name)
        full_path == Join(DotulousPath, <<folder_name>>)
    IN  IF mf[folder_name].status = "nodir"
        THEN Err("ProfileNotFound", NewProfile("", full_path))
        ELSE FromManifest(mf, full_path)

----------------------------------------------------------------------------
(* Meta Store: src/src/meta.rs *)

\* Meta::new
NewMeta ==
    [ status |-> "ok", current_profile |-> <<>>, profile_path |-> <<>>,
      trusted_profiles |-> <<>> ]

LoadMeta(m) ==
    CASE m.status = "missing" -> Err("MetaNotFound", m)
      [] m.status = "corrupt" -> Err("FailedDeserializeMeta", m)
      [] OTHER -> Ok(m)

SetCurrentProfile(m, profile) == [m EXCEPT !.current_profile = <<profile>>]

\* Clearing the current profile by starting again from Meta::new().
EmptyCurrentProfileResettingMeta(m) ==
    [m EXCEPT !.current_profile = <<>>, !.profile_path = <<>>,
              !.trusted_profiles = <<>>]

EmptyCurrentProfile(m) ==
    [m EXCEPT !.current_profile = <<>>, !.profile_path = <<>>]

\* The current profile looked up again in its directory instead of taken
\* from Meta.
CurrentProfileFromDisk(m) ==
    FromManifest(manifests, m.current_profile[1].repo_path).val

\* Meta::current_profile, where it is Some: the profile as it was recorded
\* when it was loaded.
CurrentProfile(m) == m.current_profile[1]

\* Trust granted for the running invocation only: nothing is recorded.
TrustProfileNotRecorded(m, path) == m

TrustProfile(m, path) ==
    [m EXCEPT !.trusted_profiles = Append(@, path)]

\* Trust granted to whatever lies in the same folder as a trusted profile.
IsTrustedBySibling(m, path) ==
    \E i \in 1..Len(m.trusted_profiles) :
        Parent(m.trusted_profiles[i]) = Parent(path)

IsTrusted(m, path) ==
    \E i \in 1..Len(m.trusted_profiles) : m.trusted_profiles[i] = path

\* Meta::save_meta: what meta.json holds afterwards; a failed write leaves
\* the file as it was.
SaveMeta(disk, m, writable) == IF writable THEN m ELSE disk

----------------------------------------------------------------------------
(* The trust prompt: input.trim().to_lowercase() != "y" *)

Whitespace == {" ", "\n"}

Trim(s) ==
    LET keep == { i \in 1..Len(s) : s[i] \notin Whitespace }
    IN  IF keep = {} THEN <<>>
        ELSE LET lo == CHOOSE i \in keep : \A j \in keep : i <= j
                 hi == CHOOSE i \in keep : \A j \in keep : i >= j
             IN  SubSeq(s, lo, hi)

ToLowercase(s) ==
    [i \in 1..Len(s) |->
        CASE s[i] = "Y" -> "y"
          [] s[i] = "N" -> "n"
          [] OTHER -> s[i]]

Affirmative(input) == ToLowercase(Trim(input)) = <<"y">>

\* The lines the operator can type at the prompt.
Answers == { <<"Y", "\n">>, <<"n", "\n">>, <<"y", "e", "s", "\n">> }

----------------------------------------------------------------------------
(* Session Controller: src/src/main.rs *)

SessionEvent(e, res) == [ev |-> e, cmd |-> "", loc |-> <<>>, res |-> res]

Range(seq) == { seq[i] : i \in 1..Len(seq) }

\* The ways the commands of one engine call can end: every command exits
\* with status 0, or one of them exits non-zero or fails to spawn.
CommandOutcomes(cmds) ==
    { [c \in Range(cmds) |-> "ok"] }
    \cup { [c \in Range(cmds) |-> IF c = bad THEN res ELSE "ok"] :
            bad \in Range(cmds), res \in {"nonzero", "spawnfail"} }

\* The entries on which the filesystem call of one engine call fails: none,
\* or the one in a directory the process may not write (the root).
Unwritable == { Join(HomePath, DAbsBashrc) }

IoFailures(p) == {{}} \cup { {d} : d \in Destinations(p) \cap Unwritable }

\* The repo paths marked as applied once load_to_system(p) has run: the
\* profile counts as applied unless the very first step already panicked.
AppliedAfterLoad(a, p, res) ==
    IF res.panicked /\ Len(res.log) <= 1 THEN a ELSE a \cup {p.repo_path}

\* ... and once unload_from_system(p) has run: the profile stays applied
\* when the unload panicked half-way.
AppliedAfterUnload(a, p, res) ==
    IF res.panicked THEN a ELSE a \ {p.repo_path}

\* The end of an invocation: the process exits, what it did is recorded.
Finish(op, name, outcome, err, log, prompted, h, m, a) ==
    /\ home' = h
    /\ meta' = m
    /\ applied' = a
    /\ last' = [ op |-> op, name |-> name, outcome |-> outcome, err |-> err,
                 log |-> log, prompted |-> prompted,
                 preHome |-> home, preMeta |-> meta, preApplied |-> applied ]
    /\ steps' = steps + 1
    /\ UNCHANGED <<manifests, repoFiles, edits>>

\* Steps 4 to 6 of action_load_profile: apply the profile, record it, save.
LoadApplyAndSave(profile_name, m, profile, log, prompted, h, a) ==
    \E order \in Orders(profile.files) :
       \E out \in CommandOutcomes(profile.pre_commands \o profile.post_commands) :
       \E ioFail \in IoFailures(profile) :
        LET l == LoadToSystem(profile, order, out, ioFail, h, repoFiles)
            a2 == AppliedAfterLoad(a, profile, l)
            log2 == log \o <<SessionEvent("load", "")>> \o l.log
        IN  IF l.panicked
            THEN Finish("load", profile_name, "panic", "", log2, prompted,
                        l.fs, meta, a2)
            ELSE \E writable \in BOOLEAN :
                    Finish("load", profile_name,
                           IF writable THEN "ok" ELSE "error",
                           IF writable THEN "" ELSE "FailedSaveMeta",
                           Append(log2, SessionEvent("save_meta",
                                    IF writable THEN "ok" ELSE "failed")),
                           prompted, l.fs,
                           SaveMeta(meta, SetCurrentProfile(m, profile), writable),
                           a2)

\* Steps 2 and 3 of action_load_profile with Meta written as soon as the
\* previous profile is unloaded: an exit at the resolution or at the prompt
\* leaves meta.json without a current profile.
LoadResolveAndTrustSavingEarly(profile_name, m, log, h, a) ==
    LET found == FindProfile(manifests, profile_name)
        profile == found.val
    IN  IF ~found.ok
        THEN Finish("load", profile_name, "error", found.err, log, FALSE,
                    h, EmptyCurrentProfile(m), a)
        ELSE IF IsTrusted(m, profile.repo_path)
        THEN LoadApplyAndSave(profile_name, m, profile, log, FALSE, h, a)
        ELSE \E input \in Answers :
                IF ~Affirmative(input)
                THEN Finish("load", profile_name, "declined", "",
                            Append(log, SessionEvent("prompt", "declined")),
                            TRUE, h, EmptyCurrentProfile(m), a)
                ELSE LoadApplyAndSave(profile_name,
                                      TrustProfile(m, profile.repo_path), profile,
                                      Append(log, SessionEvent("prompt", "trusted")),
                                      TRUE, h, a)

\* Steps 2 and 3 of action_load_profile: resolve the profile, consult trust.
LoadResolveAndTrust(profile_name, m, log, h, a) ==
    LET found == FindProfile(manifests, profile_name)
        profile == found.val
    IN  IF ~found.ok
        THEN Finish("load", profile_name, "error", found.err, log, FALSE,
                    h, meta, a)
        ELSE IF IsTrusted(m, profile.repo_path)
        THEN LoadApplyAndSave(profile_name, m, profile, log, FALSE, h, a)
        ELSE \E input \in Answers :
                IF ~Affirmative(input)
                THEN Finish("load", profile_name, "declined", "",
                            Append(log, SessionEvent("prompt", "declined")),
                            TRUE, h, meta, a)
                ELSE LoadApplyAndSave(profile_name,
                                      TrustProfile(m, profile.repo_path), profile,
                                      Append(log, SessionEvent("prompt", "trusted")),
                                      TRUE, h, a)

\* action_load_profile
Load(profile_name) ==
    /\ steps < MaxSteps
    /\ LET loaded == LoadMeta(meta)
           m == loaded.val
       IN  IF ~loaded.ok
           THEN Finish("load", profile_name, "error", loaded.err, <<>>, FALSE,
                       home, meta, applied)
           ELSE IF m.current_profile = <<>>
           THEN LoadResolveAndTrust(profile_name, m, <<>>, home, applied)
           ELSE LET current_profile == CurrentProfile(m)
                IN  \E order \in Orders(current_profile.files) :
                       \E out \in CommandOutcomes(current_profile.removal_commands) :
                       \E ioFail \in IoFailures(current_profile) :
                        LET u == UnloadFromSystem(current_profile, order, out,
                                                  ioFail, home, repoFiles)
                            a2 == AppliedAfterUnload(applied, current_profile, u)
                            log == <<SessionEvent("unload", "")>> \o u.log
                        IN  IF u.panicked
                            THEN Finish("load", profile_name, "panic", "", log,
                                        FALSE, u.fs, meta, a2)
                            ELSE LoadResolveAndTrust(profile_name, m, log, u.fs, a2)

\* meta.current_profile() is None where unload and reload need one: the
\* process reports it and exits, having touched nothing.
NothingToDoReportsSuccess(op) ==
    Finish(op, "", "ok", "", <<>>, FALSE, home, meta, applied)

NothingToDo(op) ==
    Finish(op, "", "error", "NothingToDo", <<>>, FALSE, home, meta, applied)

\* action_unload_profile
Unload ==
    /\ steps < MaxSteps
    /\ LET loaded == LoadMeta(meta)
           m == loaded.val
       IN  IF ~loaded.ok
           THEN Finish("unload", "", "error", loaded.err, <<>>, FALSE,
                       home, meta, applied)
           ELSE IF m.current_profile = <<>>
           THEN NothingToDo("unload")
           ELSE LET profile == CurrentProfile(m)
                IN  \E order \in Orders(profile.files) :
                       \E out \in CommandOutcomes(profile.removal_commands) :
                       \E ioFail \in IoFailures(profile) :
                        LET u == UnloadFromSystem(profile, order, out, ioFail,
                                                  home, repoFiles)
                            a2 == AppliedAfterUnload(applied, profile, u)
                            log == <<SessionEvent("unload", "")>> \o u.log
                        IN  IF u.panicked
                            THEN Finish("unload", "", "panic", "", log, FALSE,
                                        u.fs, meta, a2)
                            ELSE \E writable \in BOOLEAN :
                                    Finish("unload", "",
                                           IF writable THEN "ok" ELSE "error",
                                           IF writable THEN "" ELSE "FailedSaveMeta",
                                           Append(log, SessionEvent("save_meta",
                                                IF writable THEN "ok" ELSE "failed")),
                                           FALSE, u.fs,
                                           SaveMeta(meta, EmptyCurrentProfile(m), writable),
                                           a2)

\* reload() that records nothing new: Meta is written back as it was read.
ReloadedMetaKeepingOld(m, new_profile) == m

\* What reload() holds in memory when it saves: the current profile was
\* cleared after the unload, then the fresh copy was set as current.
ReloadedMeta(m, new_profile) ==
    SetCurrentProfile(EmptyCurrentProfile(m), new_profile)

\* The second half of action_reload_profile: tear the old copy down, clear
\* the in-memory current profile, apply the fresh copy, record it, save.
ReloadTeardownAndApply(m, old_profile, new_profile, log) ==
    \E order \in Orders(old_profile.files) :
       \E out \in CommandOutcomes(old_profile.removal_commands) :
       \E ioFail \in IoFailures(old_profile) :
        LET u == UnloadFromSystem(old_profile, order, out, ioFail, home, repoFiles)
            a2 == AppliedAfterUnload(applied, old_profile, u)
            log2 == log \o <<SessionEvent("unload", "")>> \o u.log
        IN  IF u.panicked
            THEN Finish("reload", "", "panic", "", log2, FALSE, u.fs, meta, a2)
            ELSE
              \* the process is killed between the unload and the load:
              \* nothing was written to meta.json so far
              \/ Finish("reload", "", "interrupted", "", log2, FALSE, u.fs, meta, a2)
              \/ \E order2 \in Orders(new_profile.files) :
                    \E out2 \in CommandOutcomes(new_profile.pre_commands
                                             \o new_profile.post_commands) :
                    \E ioFail2 \in IoFailures(new_profile) :
                    LET l == LoadToSystem(new_profile, order2, out2, ioFail2,
                                          u.fs, repoFiles)
                        a3 == AppliedAfterLoad(a2, new_profile, l)
                        log3 == log2 \o <<SessionEvent("load", "")>> \o l.log
                    IN  IF l.panicked
                        THEN Finish("reload", "", "panic", "", log3, FALSE,
                                    l.fs, meta, a3)
                        ELSE \E writable \in BOOLEAN :
                                Finish("reload", "",
                                       IF writable THEN "ok" ELSE "error",
                                       IF writable THEN "" ELSE "FailedSaveMeta",
                                       Append(log3, SessionEvent("save_meta",
                                            IF writable THEN "ok" ELSE "failed")),
                                       FALSE, l.fs,
                                       SaveMeta(meta, ReloadedMeta(m, new_profile),
                                                writable),
                                       a3)

\* action_reload_profile with the teardown moved before the re-read of the
\* manifest: the old copy is unloaded first, a failed re-read exits after it.
ReloadTeardownFirst ==
    /\ steps < MaxSteps
    /\ LET loaded == LoadMeta(meta)
           m == loaded.val
       IN  IF ~loaded.ok
           THEN Finish("reload", "", "error", loaded.err, <<>>, FALSE,
                       home, meta, applied)
           ELSE IF m.current_profile = <<>>
           THEN NothingToDo("reload")
           ELSE LET old_profile == CurrentProfile(m)
                    fresh == FromManifest(manifests, old_profile.repo_path)
                IN  IF fresh.ok
                    THEN ReloadTeardownAndApply(m, old_profile, fresh.val,
                                <<SessionEvent("from_manifest", "ok")>>)
                    ELSE \E order \in Orders(old_profile.files) :
                         \E out \in CommandOutcomes(old_profile.removal_commands) :
                         \E ioFail \in IoFailures(old_profile) :
                            LET u == UnloadFromSystem(old_profile, order, out,
                                                      ioFail, home, repoFiles)
                            IN  Finish("reload", "",
                                       IF u.panicked THEN "panic" ELSE "error",
                                       IF u.panicked THEN "" ELSE fresh.err,
                                       <<SessionEvent("unload", "")>> \o u.log
                                           \o <<SessionEvent("from_manifest", "failed")>>,
                                       FALSE, u.fs, meta,
                                       AppliedAfterUnload(applied, old_profile, u))

\* action_reload_profile
Reload ==
    /\ steps < MaxSteps
    /\ LET loaded == LoadMeta(meta)
           m == loaded.val
       IN  IF ~loaded.ok
           THEN Finish("reload", "", "error", loaded.err, <<>>, FALSE,
                       home, meta, applied)
           ELSE IF m.current_profile = <<>>
           THEN NothingToDo("reload")
           ELSE LET old_profile == CurrentProfile(m)
                    fresh == FromManifest(manifests, old_profile.repo_path)
                IN  IF ~fresh.ok
                    THEN Finish("reload", "", "error", fresh.err,
                                <<SessionEvent("from_manifest", "failed")>>,
                                FALSE, home, meta, applied)
                    ELSE ReloadTeardownAndApply(m, old_profile, fresh.val,
                                <<SessionEvent("from_manifest", "ok")>>)

----------------------------------------------------------------------------
(* The operator's own edits between invocations *)

Idle(op, name) ==
    [ op |-> op, name |-> name, outcome |-> "ok", err |-> "", log |-> <<>>,
      prompted |-> FALSE, preHome |-> home, preMeta |-> meta,
      preApplied |-> applied ]

\* What an edit of the manifest in `dir` can leave there: a manifest that
\* cannot be read back, or the next content of the catalogue.
EditedContent(dir, c) ==
    CASE c = MPlain(dir) -> MCommands(dir)
      [] c = MCommands(dir) -> MScenario(dir)
      [] OTHER -> MPlain(dir)

Edits(dir, disk) ==
    { OnDisk(st, disk.content) : st \in {"nomanifest", "unreadable", "corrupt"} }
    \cup { ManifestFile(EditedContent(dir, Deserialize(disk.content))) }

\* The manifest of an existing profile directory is edited, damaged or deleted.
\* Edits are explored between two invocations, where the second observes
\* them, one edit at a time.
EditManifest(dir) ==
    /\ edits < MaxEdits
    /\ 0 < steps /\ steps < MaxSteps
    /\ last.op \notin {"edit", "tamper"}
    /\ manifests[dir].status # "nodir"
    /\ \E d \in Edits(dir, manifests[dir]) \ {manifests[dir]} :
        manifests' = [manifests EXCEPT ![dir] = d]
    /\ last' = Idle("edit", dir)
    /\ edits' = edits + 1
    /\ UNCHANGED <<repoFiles, home, meta, applied, steps>>

\* meta.json is deleted or damaged.
TamperMeta ==
    /\ edits < MaxEdits
    /\ 0 < steps /\ steps < MaxSteps
    /\ last.op \notin {"edit", "tamper"}
    /\ meta.status = "ok"
    /\ \E st \in {"missing", "corrupt"} : meta' = [meta EXCEPT !.status = st]
    /\ last' = Idle("tamper", "")
    /\ edits' = edits + 1
    /\ UNCHANGED <<manifests, repoFiles, home, applied, steps>>

----------------------------------------------------------------------------
(* Initial states and specification *)

Sources(dir) == { Join(RepoPath(dir), <<s>>) : s \in {"bashrc", "vimrc"} }

\* The home directory before the first invocation.
EmptyHome ==
    [l \in Locs |-> IF l \in {Root, HomePath} THEN Directory ELSE Absent]

InitialHomes ==
    { EmptyHome,
      [EmptyHome EXCEPT ![Join(HomePath, DBashrc)] = RegularFile],
      [EmptyHome EXCEPT ![Join(HomePath, DVimrc)] = Directory] }

\* The profile directories before the first invocation: "work" exists with
\* a manifest of the catalogue, "play" has not been created or is a copy of
\* a "work" directory with the plain manifest (cp -r work play): the file
\* still carries the name and the paths of "work".
InitialManifests ==
    { [d \in Dirs |-> IF d = "work" THEN w ELSE p] :
        w \in { ManifestFile(c) : c \in Contents("work") \ {NewProfile("work", RepoPath("work"))} },
        p \in { NoManifestFile("nodir", "play"), ManifestFile(MPlain("work")) } }

\* The sources that exist: every source of every existing directory, or
\* (in an empty home) all of them but the "vimrc" of "work".
InitialRepoFiles(mf, h) ==
    LET all == UNION { IF mf[d].status = "nodir" THEN {} ELSE Sources(d) : d \in Dirs }
    IN  IF h = EmptyHome
        THEN { all, all \ {Join(RepoPath("work"), <<"vimrc">>)} }
        ELSE { all }

\* main(): the dotulous folder has just been created with Meta::new().
Init ==
    /\ manifests \in InitialManifests
    /\ home \in InitialHomes
    /\ repoFiles \in InitialRepoFiles(manifests, home)
    /\ meta = NewMeta
    /\ applied = {}
    /\ last = [ op |-> "init", name |-> "", outcome |-> "ok", err |-> "",
                log |-> <<>>, prompted |-> FALSE, preHome |-> home,
                preMeta |-> NewMeta, preApplied |-> {} ]
    /\ steps = 0
    /\ edits = 0

Next ==
    \/ \E profile_name \in Names : Load(profile_name)
    \/ Unload
    \/ Reload
    \/ \E dir \in Dirs : EditManifest(dir)
    \/ TamperMeta

Spec == Init /\ [][Next]_vars

----------------------------------------------------------------------------
(* The Profile Engine called directly: load_profile_to_system and          *)
(* unload_profile_from_system are public and take any profile, whatever    *)
(* Meta says.                                                              *)

\* An entry below the destination of another entry.
MNested(dir) ==
    Profile(dir, RepoPath(dir),
            {FileEntry("vimrc", DVimrc), FileEntry("bashrc", DNested)},
            <<>>, <<>>, <<>>)
\* A valid entry and one that reaches home_path through "..".
MParentHome(dir) ==
    Profile(dir, RepoPath(dir),
            {FileEntry("bashrc", DBashrc), FileEntry("vimrc", DParentHome)},
            <<>>, <<>>, <<>>)
\* A valid entry, one whose destination is home_path, a removal command.
MHomeCommands(dir) ==
    Profile(dir, RepoPath(dir),
            {FileEntry("bashrc", DBashrc), FileEntry("vimrc", DEmpty)},
            <<>>, <<>>, <<"rm1">>)

\* An entry in a directory the process may not write, a plain entry, a
\* command after each loop.
MUnwritable(dir) ==
    Profile(dir, RepoPath(dir),
            {FileEntry("bashrc", DAbsBashrc), FileEntry("vimrc", DVimrc)},
            <<>>, <<"post1">>, <<"rm1">>)

EngineProfiles ==
    { MScenario("work"), MPlain("work"), MCommands("work"), MRoot("work"),
      MHomeCommands("work"), MNested("work"), MParentHome("work"),
      MUnwritable("work") }

\* The sources of "work": both are files, or "vimrc" is a directory, or
\* "vimrc" is missing.
EngineRepoFiles ==
    { Sources("work"),
      { Join(RepoPath("work"), <<"bashrc">>),
        Join(RepoPath("work"), <<"vimrc", "init">>) },
      { Join(RepoPath("work"), <<"bashrc">>) } }

\* What one engine call did, and which call came before it.
EngineCall(op, p, ioFail, res) ==
    [ op |-> op, profile |-> p, ioFail |-> ioFail,
      outcome |-> IF res.panicked THEN "panic" ELSE "ok",
      log |-> res.log, preHome |-> home,
      before |-> [op |-> last.op, profile |-> last.profile,
                  ioFail |-> last.ioFail, preHome |-> last.preHome] ]

EngineInit ==
    /\ manifests = [d \in Dirs |-> NoManifestFile("nodir", d)]
    /\ home \in InitialHomes
    /\ repoFiles \in EngineRepoFiles
    /\ meta = NewMeta
    /\ applied = {}
    /\ last = [ op |-> "init", profile |-> NewProfile("", <<>>), ioFail |-> {},
                outcome |-> "ok", log |-> <<>>, preHome |-> home,
                before |-> [op |-> "", profile |-> NewProfile("", <<>>),
                            ioFail |-> {}, preHome |-> home] ]
    /\ steps = 0
    /\ edits = 0

\* DotfileProfile::load_profile_to_system(home_path)
LoadProfileToSystem(p) ==
    /\ steps < MaxSteps
    /\ \E order \in Orders(p.files) :
       \E out \in CommandOutcomes(p.pre_commands \o p.post_commands) :
       \E ioFail \in IoFailures(p) :
        LET l == LoadToSystem(p, order, out, ioFail, home, repoFiles)
        IN  /\ home' = l.fs
            /\ last' = EngineCall("load_to_system", p, ioFail, l)
    /\ steps' = steps + 1
    /\ UNCHANGED <<manifests, repoFiles, meta, applied, edits>>

\* DotfileProfile::unload_profile_from_system(home_path)
UnloadProfileFromSystem(p) ==
    /\ steps < MaxSteps
    /\ \E order \in Orders(p.files) :
       \E out \in CommandOutcomes(p.removal_commands) :
       \E ioFail \in IoFailures(p) :
        LET u == UnloadFromSystem(p, order, out, ioFail, home, repoFiles)
        IN  /\ home' = u.fs
            /\ last' = EngineCall("unload_from_system", p, ioFail, u)
    /\ steps' = steps + 1
    /\ UNCHANGED <<manifests, repoFiles, meta, applied, edits>>

EngineNext ==
    \/ \E p \in EngineProfiles : LoadProfileToSystem(p)
    \/ \E p \in EngineProfiles : UnloadProfileFromSystem(p)

EngineSpec == EngineInit /\ [][EngineNext]_vars

----------------------------------------------------------------------------
(* The Manifest Store operations of the command line: create and auto-fill *)
(* (action_create_profile, action_fill_profile, fill_files, save_manifest) *)

\* No entry yet, commands in every list: a created profile whose owner has
\* written the commands by hand before filling in the files.
MCommandsOnly(dir) ==
    Profile(dir, RepoPath(dir), {}, <<"pre1", "pre2">>, <<"post1">>, <<"rm1", "rm2">>)

\* The names the operator passes to create and auto-fill.
StoreNames == {"work", "play", "wo/rk"}

\* save_manifest writing a document without the command lists: they read
\* back empty.
SaveManifestSkippingCommands(mf, p, order, writable) ==
    IF writable
    THEN Ok([mf EXCEPT ![DirOf(Parent(p.manifest_path))] =
                OnDisk("ok", Serialize([p EXCEPT !.pre_commands = <<>>,
                                                 !.post_commands = <<>>,
                                                 !.removal_commands = <<>>],
                                       order))])
    ELSE Err("FailedSaveManifest", mf)

\* DotfileProfile::save_manifest: the record is serialized and written to
\* its manifest_path; a failed write leaves the directory as it was.
SaveManifest(mf, p, order, writable) ==
    IF writable
    THEN Ok([mf EXCEPT ![DirOf(Parent(p.manifest_path))] =
                            OnDisk("ok", Serialize(p, order))])
    ELSE Err("FailedSaveManifest", mf)

\* A recursive walk in place of read_dir: every file below the profile
\* directory, relative to it.
DirEntriesRecursive(rf, repo_path) ==
    { SubSeq(f, Len(repo_path) + 1, Len(f)) :
        f \in { g \in rf : IsPrefix(repo_path, g) /\ Len(g) > Len(repo_path) } }
    \cup { <<"manifest.json">> }

\* fs::read_dir(repo_path): the immediate entries of the profile directory,
\* relative to it; the manifest file is one of them.
DirEntries(rf, repo_path) ==
    { <<f[Len(repo_path) + 1]>> :
        f \in { g \in rf : IsPrefix(repo_path, g) /\ Len(g) > Len(repo_path) } }
    \cup { <<"manifest.json">> }

\* What one store operation did: the in-memory profile it ended with and
\* what it started from.
StoreCall(op, name, outcome, err, p) ==
    [ op |-> op, name |-> name, outcome |-> outcome, err |-> err,
      profile |-> p, preManifests |-> manifests, preMeta |-> meta ]

\* action_create_profile without the check for an existing directory: the
\* manifest that is there is overwritten.
CreateOverwriting(profile_name) ==
    /\ steps < MaxSteps
    /\ LET folder_name == Sanitize(profile_name)
           full_path == Join(DotulousPath, <<folder_name>>)
           manifest == NewProfile(profile_name, full_path)
       IN  \E io \in {"ok", "mkdir", "write"} :
                IF io = "mkdir"
                THEN /\ manifests' = manifests
                     /\ last' = StoreCall("create", profile_name, "error",
                                           "CreateDirFailed", manifest)
                ELSE LET saved == SaveManifest(manifests, manifest, <<>>, io = "ok")
                     IN  /\ manifests' = saved.val
                         /\ last' = StoreCall("create", profile_name,
                                               IF saved.ok THEN "ok" ELSE "error",
                                               saved.err, manifest)
    /\ steps' = steps + 1
    /\ UNCHANGED <<repoFiles, home, meta, applied, edits>>

\* action_create_profile
Create(profile_name) ==
    /\ steps < MaxSteps
    /\ LET folder_name == Sanitize(profile_name)
           full_path == Join(DotulousPath, <<folder_name>>)
           manifest == NewProfile(profile_name, full_path)
       IN  IF manifests[folder_name].status # "nodir"
           THEN /\ manifests' = manifests
                /\ last' = StoreCall("create", profile_name, "error",
                                      "AlreadyExists", manifest)
           ELSE \E io \in {"ok", "mkdir", "write"} :
                IF io = "mkdir"
                THEN /\ manifests' = manifests
                     /\ last' = StoreCall("create", profile_name, "error",
                                           "CreateDirFailed", manifest)
                ELSE LET created == [manifests EXCEPT ![folder_name] =
                                        NoManifestFile("nomanifest", folder_name)]
                         saved == SaveManifest(created, manifest, <<>>, io = "ok")
                     IN  /\ manifests' = saved.val
                         /\ last' = StoreCall("create", profile_name,
                                               IF saved.ok THEN "ok" ELSE "error",
                                               saved.err, manifest)
    /\ steps' = steps + 1
    /\ UNCHANGED <<repoFiles, home, meta, applied, edits>>

\* fill_files without its precondition: the entries found are added to the
\* ones the profile has.
FillFilesUnguarded(mf, rf, p, io) ==
    IF io = "readdir"
    THEN [results |-> {Err("FailedReadProfileDirectory", mf)}, profile |-> p]
    ELSE LET filled == [p EXCEPT !.files = @ \cup
                            { [src |-> e, dst |-> e] : e \in DirEntries(rf, p.repo_path) }]
         IN  [ results |-> { SaveManifest(mf, filled, order, io = "ok") :
                                order \in Orders(filled.files) },
               profile |-> filled ]

\* DotfileProfile::fill_files under the outcome `io` of its filesystem
\* calls: the results it can return (one for each order in which the map is
\* written) and the in-memory profile it leaves.
FillFiles(mf, rf, p, io) ==
    IF p.files # {}
    THEN [results |-> {Err("FillManifestArrayNotEmpty", mf)}, profile |-> p]
    ELSE IF io = "readdir"
    THEN [results |-> {Err("FailedReadProfileDirectory", mf)}, profile |-> p]
    ELSE LET filled == [p EXCEPT !.files =
                            { [src |-> e, dst |-> e] : e \in DirEntries(rf, p.repo_path) }]
         IN  [ results |-> { SaveManifest(mf, filled, order, io = "ok") :
                                order \in Orders(filled.files) },
               profile |-> filled ]

\* action_fill_profile
AutoFill(profile_name) ==
    /\ steps < MaxSteps
    /\ LET found == FindProfile(manifests, profile_name)
       IN  IF ~found.ok
           THEN /\ manifests' = manifests
                /\ last' = StoreCall("fill", profile_name, "error", found.err,
                                      found.val)
           ELSE \E io \in {"ok", "readdir", "write"} :
                LET f == FillFiles(manifests, repoFiles, found.val, io)
                IN  \E saved \in f.results :
                        /\ manifests' = saved.val
                        /\ last' = StoreCall("fill", profile_name,
                                              IF saved.ok THEN "ok" ELSE "error",
                                              saved.err, f.profile)
    /\ steps' = steps + 1
    /\ UNCHANGED <<repoFiles, home, meta, applied, edits>>

\* The profile directories the store operations find: "work" is missing or
\* holds a manifest with entries, with commands only or a freshly created
\* one; "play" is missing, a copy of a "work" directory, or damaged.
StoreManifests ==
    { [d \in Dirs |-> IF d = "work" THEN w ELSE p] :
        w \in { NoManifestFile("nodir", "work"),
                ManifestFile(MPlain("work")),
                ManifestFile(MCommandsOnly("work")),
                ManifestFile(NewProfile("work", RepoPath("work"))) },
        p \in { NoManifestFile("nodir", "play"),
                ManifestFile(MPlain("work")),
                NoManifestFile("corrupt", "play") } }

\* The files that lie in the profile directories that exist.
StoreRepoFiles(mf) ==
    { {}, { f \in Sources("work") \cup Sources("play") \cup
                  { Join(RepoPath("work"), <<"vimrc", "init">>) } :
            mf[f[Len(DotulousPath) + 1]].status # "nodir" } }

StoreInit ==
    /\ manifests \in StoreManifests
    /\ repoFiles \in StoreRepoFiles(manifests)
    /\ home = EmptyHome
    /\ meta = NewMeta
    /\ applied = {}
    /\ last = [ op |-> "init", name |-> "", outcome |-> "ok", err |-> "",
                profile |-> NewProfile("", <<>>), preManifests |-> manifests,
                preMeta |-> NewMeta ]
    /\ steps = 0
    /\ edits = 0

StoreNext ==
    \/ \E profile_name \in StoreNames : Create(profile_name)
    \/ \E profile_name \in StoreNames : AutoFill(profile_name)

StoreSpec == StoreInit /\ [][StoreNext]_vars

----------------------------------------------------------------------------
(* What the last invocation did *)

ManifestErrors ==
    {"NoManifestInProfile", "FailedReadManifest", "FailedDeserializeManifest"}

StructuralErrors ==
    ManifestErrors \cup {"ProfileNotFound", "MetaNotFound", "FailedDeserializeMeta"}

\* A profile was recorded as current when the last invocation started.
HadCurrent ==
    last.preMeta.status = "ok" /\ last.preMeta.current_profile # <<>>

Ran(e) == \E i \in 1..Len(last.log) : last.log[i].ev = e

\* No removal and no symlink of the last invocation took effect.
NothingRemovedOrLinked ==
    \A i \in 1..Len(last.log) :
        last.log[i].ev \in {"remove", "link"} => last.log[i].res # "ok"

\* The tracked locations below home_path.
UnderHome == { l \in Locs : IsPrefix(HomePath, l) /\ l # HomePath }

HomeFilesUnchanged == \A l \in UnderHome : home[l] = last.preHome[l]

\* The profile directories some symlink of the system points into.
LinkedRepos ==
    { d \in Dirs : \E l \in Locs :
        home[l].kind = "link" /\ IsPrefix(RepoPath(d), home[l].target) }

\* The profile the last load or reload resolved from disk.
Resolved ==
    IF last.op = "load" THEN FindProfile(manifests, last.name)
    ELSE FromManifest(manifests, last.preMeta.current_profile[1].repo_path)

----------------------------------------------------------------------------
(* Claims *)

\* C1: after any sequence of load, unload and reload invocations, the
\* persisted Meta's current_profile is Some if and only if a profile has
\* been applied to the system and not yet unloaded.
C1_CurrentIffApplied ==
    meta.status = "ok" =>
        (meta.current_profile # <<>> <=> applied # {})

\* C2: load(name) of a profile whose repo_path is not trusted prompts, and
\* after a response other than "y" the persisted Meta is unchanged, no file
\* under home_path was created or removed and no command was run, whether
\* or not another profile was active.
C2_DeclinedPromptChangesNothing ==
    (last.op = "load" /\ last.outcome = "declined") =>
        /\ last.prompted
        /\ meta = last.preMeta
        /\ HomeFilesUnchanged
        /\ ~Ran("cmd")

\* C3: when the unloaded profile has an entry whose destination is
\* home_path or the filesystem root, unload_from_system aborts without
\* having deleted anything, whatever the iteration order.
C3_ProtectedEntryAbortsBeforeAnyRemoval ==
    (Ran("unload") /\ HadCurrent
       /\ \E d \in Destinations(last.preMeta.current_profile[1]) : ProtectedPath(d)) =>
        /\ last.outcome = "panic"
        /\ home = last.preHome

\* C4: a load(name) that ends with a structural failure has halted before
\* any symlink, removal or command step: the files under home_path are as
\* before the call and no command was executed, also when another profile
\* was active.
C4_StructuralFailureBeforeAnyStep ==
    (last.op = "load" /\ last.outcome = "error" /\ last.err \in StructuralErrors) =>
        /\ HomeFilesUnchanged
        /\ NothingRemovedOrLinked
        /\ ~Ran("cmd")

\* C5: when reload() is interrupted after the old profile has been unloaded
\* and before the new copy has been applied and recorded, the persisted
\* Meta has no current profile.
C5_InterruptedReloadLeavesNothingLoaded ==
    (last.op = "reload"
       /\ (last.outcome = "interrupted" \/ (last.outcome = "panic" /\ Ran("load")))) =>
        (meta.status = "ok" /\ meta.current_profile = <<>>)

\* C6: when reload() is invoked with a profile active and re-reading its
\* manifest fails, the operation aborts before any teardown: the persisted
\* Meta still names the old copy, no destination of the old profile is
\* removed and no removal command is run.
C6_FailedRereadTearsNothingDown ==
    (last.op = "reload" /\ HadCurrent /\ ~Resolved.ok) =>
        /\ last.outcome = "error"
        /\ last.err \in ManifestErrors
        /\ meta = last.preMeta
        /\ meta.current_profile # <<>>
        /\ home = last.preHome
        /\ ~Ran("unload")
        /\ ~Ran("remove")
        /\ ~Ran("cmd")

\* Witness of C6: a reload failed to re-read the manifest of an active
\* profile one of whose symlinks is in place.
C6_Witness ==
    /\ last.op = "reload"
    /\ HadCurrent
    /\ last.err \in ManifestErrors
    /\ \E d \in Destinations(last.preMeta.current_profile[1]) :
        home[d].kind = "link"

\* C7: at the end of every invocation the symlinks of at most one profile
\* are applied to the system.
C7_AtMostOneProfileApplied ==
    Cardinality(LinkedRepos) <= 1

\* The commands that follow command c in the lists of profile p: the rest
\* of its own list and, after a pre-command, the post-commands.
CommandsAfter(p, c) ==
    { p.pre_commands[j] : j \in { k \in 1..Len(p.pre_commands) :
            \E i \in 1..(k - 1) : p.pre_commands[i] = c } }
    \cup (IF c \in Range(p.pre_commands) THEN Range(p.post_commands) ELSE {})
    \cup { p.post_commands[j] : j \in { k \in 1..Len(p.post_commands) :
            \E i \in 1..(k - 1) : p.post_commands[i] = c } }
    \cup { p.removal_commands[j] : j \in { k \in 1..Len(p.removal_commands) :
            \E i \in 1..(k - 1) : p.removal_commands[i] = c } }

\* The profiles the last invocation unloaded or applied.
Involved ==
    (IF HadCurrent THEN {last.preMeta.current_profile[1]} ELSE {})
    \cup (IF last.op \in {"load", "reload"} /\ HadCurrent /\ Resolved.ok
          THEN {Resolved.val} ELSE {})
    \cup (IF last.op = "load" /\ ~HadCurrent /\ last.preMeta.status = "ok" /\ Resolved.ok
          THEN {Resolved.val} ELSE {})

\* C8: a command that exits non-zero or fails to spawn does not abort the
\* sequence: every later command of its list, the symlink phase and the
\* post-commands still run and the operation completes.
C8_FailedCommandDoesNotAbort ==
    \A i \in 1..Len(last.log) :
        (last.log[i].ev = "cmd" /\ last.log[i].res \in {"nonzero", "spawnfail"}) =>
            /\ last.outcome # "panic"
            /\ \A p \in Involved : \A c \in CommandsAfter(p, last.log[i].cmd) :
                \E j \in (i + 1)..Len(last.log) :
                    last.log[j].ev = "cmd" /\ last.log[j].cmd = c
            /\ \A p \in Involved :
                (last.log[i].cmd \in Range(p.pre_commands) /\ p.files # {}) =>
                    \E j \in (i + 1)..Len(last.log) : last.log[j].ev = "link"

\* C9: for an untrusted profile with no commands and files =
\* {"bashrc": "/.bashrc"}, load(name) confirmed with "y" leaves a symlink at
\* <home>/.bashrc pointing to <repo>/bashrc, the profile's repo path in the
\* persisted trusted set and the profile as the persisted current profile.
C9_ScenarioLinksUnderHome ==
    (last.op = "load" /\ last.outcome = "ok" /\ last.prompted
       /\ Resolved.val.files = {FileEntry("bashrc", <<"/", ".bashrc">>)}
       /\ CommandsOf(Resolved.val) = {}) =>
        /\ home[HomePath \o <<".bashrc">>] =
                Symlink(Resolved.val.repo_path \o <<"bashrc">>)
        /\ IsTrusted(meta, Resolved.val.repo_path)
        /\ meta.current_profile = <<Resolved.val>>

\* C10: whenever a profile is active and Meta can be written, unload()
\* applies the Profile Engine unload and terminates with the persisted
\* current profile cleared.
C10_UnloadAlwaysClears ==
    (last.op = "unload" /\ HadCurrent /\ last.err # "FailedSaveMeta") =>
        /\ Ran("unload")
        /\ last.outcome = "ok"
        /\ meta.current_profile = <<>>

\* What the last invocation started from: a readable Meta without a current
\* profile.
HadNoCurrent ==
    last.preMeta.status = "ok" /\ last.preMeta.current_profile = <<>>

\* C11: unload and reload invoked when Meta records no current profile
\* report the "nothing to do" failure, leave the persisted Meta unchanged,
\* remove nothing under home_path and run no command.
C11_NothingToDoTouchesNothing ==
    (last.op \in {"unload", "reload"} /\ HadNoCurrent) =>
        /\ last.outcome = "error"
        /\ last.err = "NothingToDo"
        /\ meta = last.preMeta
        /\ home = last.preHome
        /\ ~Ran("remove") /\ ~Ran("cmd") /\ ~Ran("link")

\* A reload that found no current profile, on a system where an earlier load
\* left its symlinks behind.
C11_Witness ==
    /\ last.op = "reload" /\ HadNoCurrent
    /\ last.err = "NothingToDo"
    /\ \E l \in Locs : home[l].kind = "link"

\* The link events of the last engine call that name location l.
LinkEventsAt(l) ==
    { i \in 1..Len(last.log) : last.log[i].ev = "link" /\ last.log[i].loc = l }

\* C12: the symlink phase of load_to_system never overwrites or replaces
\* anything: every tracked location that held a file, a directory or a
\* symlink (dangling ones included) before the call holds the same node
\* after it.
C12_LinkPhaseNeverOverwrites ==
    last.op = "load_to_system" =>
        \A l \in Locs : last.preHome[l].kind # "absent" => home[l] = last.preHome[l]

\* A load_to_system that met a dangling symlink at one of its destinations
\* and a regular file or directory at another.
C12_Witness ==
    /\ last.op = "load_to_system"
    /\ \E l \in Locs :
        /\ last.preHome[l].kind = "link"
        /\ NodeAt(last.preHome, repoFiles, last.preHome[l].target).kind = "absent"
        /\ LinkEventsAt(l) # {}
    /\ \E l \in Locs :
        /\ last.preHome[l].kind \in {"file", "dir"}
        /\ LinkEventsAt(l) # {}

\* The last two engine calls were load_to_system of the same profile, a
\* profile without commands, under the same filesystem permissions.
LoadedTwiceInARow ==
    /\ last.op = "load_to_system"
    /\ last.before.op = "load_to_system"
    /\ last.before.profile = last.profile
    /\ last.before.ioFail = last.ioFail
    /\ CommandsOf(last.profile) = {}

\* C13: for a profile without commands, a second load_to_system in a row
\* leaves the filesystem as the first one left it: no symlink is created,
\* nothing is mutated further.
C13_SecondLoadChangesNothing ==
    LoadedTwiceInARow =>
        /\ home = last.preHome
        /\ \A i \in 1..Len(last.log) :
                last.log[i].ev = "link" => last.log[i].res # "ok"

\* The destinations of the profile of the last engine call that the two
\* assert! of the removal loop name.
ProtectedDestinations ==
    { d \in Destinations(last.profile) : ProtectedPath(d) }

\* The last engine call stopped at the assert!, having run no command.
AbortedAtAssert ==
    /\ last.outcome = "panic"
    /\ last.log # <<>>
    /\ last.log[Len(last.log)].ev = "remove"
    /\ last.log[Len(last.log)].res = "assert"
    /\ ~Ran("cmd")

\* C19: unload_from_system never removes home_path itself or the filesystem
\* root; when the destination of an entry equals either, the process aborts
\* at that entry, before removing it, and processes no later entry and no
\* removal command.
C19_UnloadNeverRemovesHomeOrRoot ==
    (/\ last.op = "unload_from_system"
     /\ last.preHome[HomePath] = Directory
     /\ last.preHome[Root] = Directory) =>
        /\ home[HomePath] = Directory
        /\ home[Root] = Directory
        /\ ProtectedDestinations # {} => AbortedAtAssert

\* The last invocation was a load that got as far as the trust check: Meta
\* was read, the previous profile (if any) was unloaded without a panic and
\* the profile was resolved.
ReachedTrustCheck ==
    /\ last.op = "load"
    /\ last.preMeta.status = "ok"
    /\ Resolved.ok
    /\ (last.outcome = "panic" => Ran("load"))

\* C14: the trust prompt of load(name) is decided by the repo_path of the
\* profile alone: no prompt when the path is in the trusted set of Meta,
\* whatever the display name; a prompt when it is not, even when a trusted
\* profile at another path has the same name and contents.
C14_TrustIsPerRepoPath ==
    ReachedTrustCheck =>
        (last.prompted <=>
            Resolved.val.repo_path \notin Range(last.preMeta.trusted_profiles))

\* A load that prompted for a profile whose name and files equal those of a
\* trusted profile in another directory.
C14_Witness ==
    /\ ReachedTrustCheck
    /\ last.prompted
    /\ \E i \in 1..Len(last.preMeta.trusted_profiles) :
        LET other == FromManifest(manifests, last.preMeta.trusted_profiles[i])
        IN  /\ last.preMeta.trusted_profiles[i] # Resolved.val.repo_path
            /\ other.ok
            /\ other.val.name = Resolved.val.name
            /\ other.val.files = Resolved.val.files
            /\ CommandsOf(other.val) = CommandsOf(Resolved.val)

\* The paths the manifest file in directory dir carries.
SerializedPaths(dir) ==
    <<StrToPath(manifests[dir].content.manifest_path),
      StrToPath(manifests[dir].content.repo_path)>>

\* C15: whatever manifest_path and repo_path a manifest file carries, the
\* profile from_manifest returns for a directory has manifest path
\* <directory>/manifest.json and repo_path <directory>.
C15_LoadedPathsAreTheDirectory ==
    \A dir \in Dirs :
        LET loaded == FromManifest(manifests, RepoPath(dir))
        IN  loaded.ok =>
                /\ loaded.val.manifest_path = RepoPath(dir) \o <<"manifest.json">>
                /\ loaded.val.repo_path = RepoPath(dir)

\* A load that applied and recorded a profile read from a manifest file that
\* carries the paths of another directory.
C15_Witness ==
    /\ last.op = "load" /\ last.outcome = "ok"
    /\ manifests[Sanitize(last.name)].status = "ok"
    /\ SerializedPaths(Sanitize(last.name)) #
            <<RepoPath(Sanitize(last.name)) \o <<"manifest.json">>,
              RepoPath(Sanitize(last.name))>>
    /\ meta.current_profile = <<Resolved.val>>

\* The last store operation wrote its in-memory profile with save_manifest.
SavedProfile ==
    last.op \in {"create", "fill"} /\ last.outcome = "ok"

\* C16: a profile saved with save_manifest and loaded from its directory
\* with from_manifest comes back with the same name, the same files mapping
\* and the same pre, post and removal command lists, in the same order.
C16_SaveThenLoadRoundTrips ==
    SavedProfile =>
        LET loaded == FromManifest(manifests, last.profile.repo_path)
        IN  /\ loaded.ok
            /\ loaded.val.name = last.profile.name
            /\ loaded.val.files = last.profile.files
            /\ loaded.val.pre_commands = last.profile.pre_commands
            /\ loaded.val.post_commands = last.profile.post_commands
            /\ loaded.val.removal_commands = last.profile.removal_commands

\* A saved profile with several entries and several commands in a list.
C16_Witness ==
    /\ SavedProfile
    /\ Cardinality(last.profile.files) >= 2
    /\ Len(last.profile.pre_commands) >= 2
    /\ Len(last.profile.removal_commands) >= 2

\* The profile the last auto-fill resolved before it called fill_files.
FillTarget == FindProfile(last.preManifests, last.name)

\* C17: fill_files on a profile whose files mapping is not empty returns
\* FillManifestArrayNotEmpty, leaves the in-memory mapping as it was and
\* does not write the manifest.
C17_FillRefusesNonEmptyFiles ==
    (last.op = "fill" /\ FillTarget.ok /\ FillTarget.val.files # {}) =>
        /\ last.outcome = "error"
        /\ last.err = "FillManifestArrayNotEmpty"
        /\ last.profile.files = FillTarget.val.files
        /\ manifests = last.preManifests

\* An auto-fill of a profile that lists entries the directory also holds.
C17_Witness ==
    /\ last.op = "fill"
    /\ FillTarget.ok
    /\ Cardinality(FillTarget.val.files) = 2
    /\ DirEntries(repoFiles, FillTarget.val.repo_path) # { <<"manifest.json">> }
    /\ last.err = "FillManifestArrayNotEmpty"

\* The directory the last create was about existed before the call.
CreateCollides ==
    last.preManifests[Sanitize(last.name)].status # "nodir"

\* C18: create(name) fails and modifies nothing when the sanitized directory
\* of name exists; otherwise, when it succeeds, the directory holds a record
\* with that name, no files and no commands, which resolving name returns,
\* and no other directory is touched; a failure there is one of the
\* filesystem.  Meta is never changed.
C18_CreateWritesEmptyProfile ==
    last.op = "create" =>
        /\ meta = last.preMeta
        /\ CreateCollides =>
                (last.outcome = "error" /\ manifests = last.preManifests)
        /\ (~CreateCollides /\ last.outcome = "ok") =>
                /\ FindProfile(manifests, last.name) =
                        Ok(NewProfile(last.name, RepoPath(Sanitize(last.name))))
                /\ \A d \in Dirs \ {Sanitize(last.name)} :
                        manifests[d] = last.preManifests[d]
        /\ (~CreateCollides /\ last.outcome = "error") =>
                last.err \in {"CreateDirFailed", "FailedSaveManifest"}

\* A create that succeeded for a name that is not its own sanitized form,
\* after a create that collided.
C18_Witness ==
    /\ last.op = "create" /\ last.outcome = "ok"
    /\ Sanitize(last.name) # last.name
    /\ FindProfile(manifests, last.name).ok
    /\ \E d \in Dirs \ {Sanitize(last.name)} : manifests[d].status = "ok"

\* The profile Meta recorded as current when the last invocation started.
Snapshot == last.preMeta.current_profile[1]

SessionEvents == {"prompt", "load", "save_meta", "from_manifest", "unload"}

\* The events of the unload step of the last invocation: those that follow
\* its "unload" event, up to the next step of the session.
UnloadSegment ==
    LET at == CHOOSE i \in 1..Len(last.log) : last.log[i].ev = "unload"
        later == { j \in (at + 1)..Len(last.log) : last.log[j].ev \in SessionEvents }
        end == IF later = {} THEN Len(last.log)
               ELSE (CHOOSE j \in later : \A k \in later : j <= k) - 1
    IN  SubSeq(last.log, at + 1, end)

IsRemoveEvent(e) == e.ev = "remove"
IsCmdEvent(e) == e.ev = "cmd"

\* The destinations the unload step went through, the commands it started.
UnloadedDestinations ==
    { UnloadSegment[i].loc :
        i \in { j \in 1..Len(UnloadSegment) : IsRemoveEvent(UnloadSegment[j]) } }

UnloadCommands ==
    LET cmds == SelectSeq(UnloadSegment, IsCmdEvent)
    IN  [i \in 1..Len(cmds) |-> cmds[i].cmd]

\* The unload step ran to its end: no assert! and no failed spawn stopped it.
UnloadCompleted ==
    \A i \in 1..Len(UnloadSegment) :
        UnloadSegment[i].res \notin {"assert", "spawnfail"}

\* C20: the unload step of unload(), load(name) and reload() works on the
\* snapshot recorded in Meta when the profile was loaded: it goes through
\* the destinations of the snapshot and runs the removal commands of the
\* snapshot, in order, whatever the manifest on disk says by now.
C20_UnloadUsesTheSnapshot ==
    (Ran("unload") /\ HadCurrent) =>
        /\ UnloadedDestinations \subseteq Destinations(Snapshot)
        /\ Len(UnloadCommands) <= Len(Snapshot.removal_commands)
        /\ UnloadCommands = SubSeq(Snapshot.removal_commands, 1, Len(UnloadCommands))
        /\ UnloadCompleted =>
                /\ UnloadedDestinations = Destinations(Snapshot)
                /\ UnloadCommands = Snapshot.removal_commands

\* An unload step that removed something although the manifest of the
\* profile had been deleted, damaged or changed since it was loaded.
C20_Witness ==
    /\ Ran("unload") /\ HadCurrent
    /\ LET disk == FromManifest(manifests, Snapshot.repo_path)
       IN  ~disk.ok \/ disk.val # Snapshot
    /\ \E i \in 1..Len(UnloadSegment) :
            IsRemoveEvent(UnloadSegment[i]) /\ UnloadSegment[i].res = "ok"

\* The positions of the events of kind e in the log of the last invocation.
Positions(e) == { i \in 1..Len(last.log) : last.log[i].ev = e }

\* The only position of such an event, where there is exactly one.
Position(e) == CHOOSE i \in Positions(e) : TRUE

\* Each step of the session happened exactly once in the last invocation.
EachOnce(events) == \A e \in events : Cardinality(Positions(e)) = 1

\* The last invocation was a reload that ran to its end and saved Meta.
ReloadSucceeded ==
    last.op = "reload" /\ last.outcome = "ok"

\* C21: a successful reload() re-reads the manifest at the repo_path of the
\* active profile, then unloads the old copy, then applies the fresh copy,
\* then persists Meta, each once and in this order; the unload works on the
\* old copy, the load on the fresh one; afterwards the persisted current
\* profile is what the manifest on disk held at reload time, at the same
\* repo_path as before.
C21_ReloadOrderAndResult ==
    ReloadSucceeded =>
        /\ EachOnce({"from_manifest", "unload", "load", "save_meta"})
        /\ Position("from_manifest") = 1
        /\ Position("from_manifest") < Position("unload")
        /\ Position("unload") < Position("load")
        /\ Position("load") < Position("save_meta")
        /\ Position("save_meta") = Len(last.log)
        /\ \A i \in Positions("remove") :
                /\ Position("unload") < i /\ i < Position("load")
                /\ last.log[i].loc \in Destinations(Snapshot)
        /\ \A i \in Positions("link") :
                /\ Position("load") < i /\ i < Position("save_meta")
                /\ last.log[i].loc \in Destinations(Resolved.val)
        /\ \A i \in Positions("cmd") :
                IF i < Position("load")
                THEN /\ Position("unload") < i
                     /\ last.log[i].cmd \in Range(Snapshot.removal_commands)
                ELSE /\ i < Position("save_meta")
                     /\ last.log[i].cmd \in CommandsOf(Resolved.val)
        /\ Resolved.ok
        /\ meta.status = "ok"
        /\ meta.current_profile = <<Resolved.val>>
        /\ meta.current_profile[1].repo_path = Snapshot.repo_path

\* A successful reload of a profile whose manifest had been edited since it
\* was loaded: the old copy removed something, the fresh copy linked
\* something.
C21_Witness ==
    /\ ReloadSucceeded
    /\ Resolved.val # Snapshot
    /\ \E i \in Positions("remove") : last.log[i].res = "ok"
    /\ \E i \in Positions("link") : last.log[i].res = "ok"

\* Events i+1..i+Len(cmds) of the last engine call are the commands of the
\* list, one after the other in listed order.
CommandsRunAt(i, cmds) ==
    /\ Len(last.log) >= i + Len(cmds)
    /\ \A j \in 1..Len(cmds) :
            last.log[i + j].ev = "cmd" /\ last.log[i + j].cmd = cmds[j]

\* Events i+1..i+n of the last engine call are events of kind e, one for
\* each entry of the profile.
EntriesHandledAt(i, e) ==
    LET n == Cardinality(last.profile.files)
    IN  /\ Len(last.log) >= i + n
        /\ \A j \in 1..n : last.log[i + j].ev = e
        /\ { last.log[i + j].loc : j \in 1..n } = Destinations(last.profile)

\* C22: load_to_system runs all pre_commands in listed order, then handles
\* every entry in the symlink phase, then runs all post_commands in listed
\* order; unload_from_system handles every entry in the removal loop (unless
\* an assert! of the loop stops it) and then runs all removal_commands in
\* listed order. Nothing else happens in between.
C22_PhasesRunInOrder ==
    LET p == last.profile
        files == Cardinality(p.files)
    IN  /\ last.op = "load_to_system" =>
                /\ Len(last.log) = Len(p.pre_commands) + files + Len(p.post_commands)
                /\ CommandsRunAt(0, p.pre_commands)
                /\ EntriesHandledAt(Len(p.pre_commands), "link")
                /\ CommandsRunAt(Len(p.pre_commands) + files, p.post_commands)
        /\ (last.op = "unload_from_system" /\ ~AbortedAtAssert) =>
                /\ Len(last.log) = files + Len(p.removal_commands)
                /\ EntriesHandledAt(0, "remove")
                /\ CommandsRunAt(files, p.removal_commands)

\* The positions of the events of kind e of the last engine call that
\* report a failure of the filesystem call.
FailedAt(e) ==
    { i \in 1..Len(last.log) : last.log[i].ev = e /\ last.log[i].res = "failed" }

\* The command phase that follows the loops is entered at event i + 1.
PhaseStartsAt(i, cmds) ==
    cmds # <<>> =>
        /\ Len(last.log) > i
        /\ last.log[i + 1].ev = "cmd"
        /\ last.log[i + 1].cmd = cmds[1]

\* C23: a symlink() that fails for one entry of load_to_system, or a removal
\* that fails for one entry of unload_from_system, does not leave the loop:
\* every entry of the profile is attempted (an assert! at another entry
\* aside) and the command phase that follows the loop is entered.
C23_EntryFailureDoesNotAbort ==
    LET p == last.profile
        files == Cardinality(p.files)
    IN  /\ (last.op = "load_to_system" /\ FailedAt("link") # {}) =>
                /\ EntriesHandledAt(Len(p.pre_commands), "link")
                /\ PhaseStartsAt(Len(p.pre_commands) + files, p.post_commands)
        /\ (last.op = "unload_from_system" /\ FailedAt("remove") # {}
                /\ ~AbortedAtAssert) =>
                /\ EntriesHandledAt(0, "remove")
                /\ PhaseStartsAt(files, p.removal_commands)

\* An unload_from_system whose first entry could not be removed, whose
\* second entry was removed and whose removal command ran afterwards.
C23_Witness ==
    /\ last.op = "unload_from_system"
    /\ Len(last.log) = 3
    /\ last.log[1].ev = "remove" /\ last.log[1].res = "failed"
    /\ last.log[2].ev = "remove" /\ last.log[2].res = "ok"
    /\ last.log[3].ev = "cmd" /\ last.log[3].res = "ok"

\* The names a file or directory directly inside a profile directory can
\* have in this model.
EntryNames == {"bashrc", "vimrc", "manifest.json"}

\* The identity mapping over what lies directly inside the directory the
\* last auto-fill was about: its manifest, and every name under which a file
\* lies or below which files lie.
ExpectedFill ==
    LET repo == FillTarget.val.repo_path
    IN  { [src |-> <<n>>, dst |-> <<n>>] :
            n \in { m \in EntryNames :
                      \/ m = "manifest.json"
                      \/ \E f \in repoFiles : IsPrefix(repo \o <<m>>, f) } }

\* The last invocation was an auto-fill that reached fill_files with a
\* profile without entries.
FilledEmptyProfile ==
    last.op = "fill" /\ FillTarget.ok /\ FillTarget.val.files = {}

\* C24: fill_files on a profile without entries, when it succeeds, leaves
\* as files exactly the identity mapping over the immediate entries of
\* repo_path, relative to repo_path and with the manifest file among them,
\* in memory and in the manifest on disk, the rest of the profile being as
\* it was; when the manifest cannot be written (or the directory not read)
\* the error is returned and the file on disk is as before.
C24_FillWritesImmediateEntries ==
    FilledEmptyProfile =>
        LET persisted == FromManifest(manifests, FillTarget.val.repo_path)
        IN  /\ last.outcome = "ok" =>
                    /\ last.profile = [FillTarget.val EXCEPT !.files = ExpectedFill]
                    /\ persisted.ok
                    /\ persisted.val = last.profile
            /\ last.outcome # "ok" =>
                    /\ last.outcome = "error"
                    /\ last.err \in {"FailedReadProfileDirectory", "FailedSaveManifest"}
                    /\ manifests = last.preManifests
                    /\ persisted.val.files = {}

\* A successful auto-fill of a directory that holds a file and a
\* directory with a file inside.
C24_Witness ==
    /\ FilledEmptyProfile
    /\ last.outcome = "ok"
    /\ Cardinality(last.profile.files) = 3
    /\ \E f \in repoFiles :
            /\ IsPrefix(FillTarget.val.repo_path, f)
            /\ Len(f) = Len(FillTarget.val.repo_path) + 2

\* The last two engine calls were load_to_system and then
\* unload_from_system of the same profile, a profile without commands; no
\* filesystem call was refused for lack of permission and no assert! stopped
\* the unload.
LoadedThenUnloaded ==
    /\ last.op = "unload_from_system"
    /\ last.outcome = "ok"
    /\ last.before.op = "load_to_system"
    /\ last.before.profile = last.profile
    /\ last.ioFail = {} /\ last.before.ioFail = {}
    /\ CommandsOf(last.profile) = {}
    /\ last.profile.removal_commands = <<>>

\* The locations that held a symlink into the profile directory when the
\* unload started: the symlinks the load had created.
LinksOfProfile ==
    { l \in Locs :
        /\ last.preHome[l].kind = "link"
        /\ \E e \in last.profile.files :
                last.preHome[l].target = Join(last.profile.repo_path, e.src) }

\* C25: after load_to_system followed by an unload_from_system of the same
\* profile that ran to its end, no symlink the load created is left,
\* whether its source exists in the profile directory or not.
C25_UnloadRemovesEveryLink ==
    LoadedThenUnloaded =>
        \A l \in LinksOfProfile : home[l].kind # "link"

\* The locations that held a file or a directory of the user before the
\* load, home_path and the root aside.
UserNodesBeforeLoad ==
    { l \in Locs \ {Root, HomePath} :
        last.before.preHome[l].kind \in {"file", "dir"} }

\* C26: a file or directory that was at a destination before
\* load_to_system, and that the load therefore skipped, is still there
\* unchanged after the unload_from_system of the same profile that follows:
\* the unload removes only what the load created.
C26_UnloadKeepsWhatLoadSkipped ==
    LoadedThenUnloaded =>
        \A l \in UserNodesBeforeLoad : home[l] = last.before.preHome[l]

\* C27: whenever the persisted Meta names a current profile, the repo_path
\* of that profile is in the persisted trusted list; and the profile a
\* reload applies, read afresh and applied without a prompt, lies at a
\* repo_path that was trusted when the reload started.
C27_CurrentProfileIsTrusted ==
    /\ meta.current_profile # <<>> =>
            meta.current_profile[1].repo_path \in Range(meta.trusted_profiles)
    /\ (last.op = "reload" /\ Ran("load")) =>
            Resolved.val.repo_path \in Range(last.preMeta.trusted_profiles)

\* A reload that applied, without a prompt, a manifest with commands that
\* the operator had never seen when trusting the profile.
C27_Witness ==
    /\ last.op = "reload"
    /\ Ran("load")
    /\ ~last.prompted
    /\ CommandsOf(Snapshot) = {}
    /\ CommandsOf(Resolved.val) # {}
    /\ meta.current_profile = <<Resolved.val>>

\* The trusted list as persisted before and after the last invocation.
TrustedBefore == last.preMeta.trusted_profiles
TrustedAfter == meta.trusted_profiles

\* C28: the persisted trusted list only grows and holds no path twice: an
\* invocation leaves it as it was or appends one path, and it appends only
\* in a load(name) that prompted and was answered affirmatively, the path
\* being the repo_path of the profile and not in the list before; unload()
\* and reload() never change it; a load of a profile at a path of the
\* persisted list does not prompt.
C28_TrustedListOnlyGrows ==
    /\ \A i, j \in 1..Len(TrustedAfter) :
            TrustedAfter[i] = TrustedAfter[j] => i = j
    /\ Len(TrustedBefore) <= Len(TrustedAfter)
    /\ SubSeq(TrustedAfter, 1, Len(TrustedBefore)) = TrustedBefore
    /\ TrustedAfter # TrustedBefore =>
            /\ last.op = "load"
            /\ last.prompted
            /\ Range(last.log) \cap {SessionEvent("prompt", "trusted")} # {}
            /\ Resolved.ok
            /\ TrustedAfter = Append(TrustedBefore, Resolved.val.repo_path)
            /\ Resolved.val.repo_path \notin Range(TrustedBefore)
    /\ (ReachedTrustCheck /\ Resolved.val.repo_path \in Range(TrustedBefore)) =>
            ~last.prompted

\* A load that appended a second path to a list that held another one.
C28_Witness ==
    /\ last.op = "load"
    /\ Len(TrustedBefore) = 1
    /\ Len(TrustedAfter) = 2
    /\ TrustedAfter[1] # TrustedAfter[2]

\* The events of the Profile Engine in the log of an invocation.
EngineEvents == {"cmd", "link", "remove"}

C30_ProfilePathTracksCurrent ==
    meta.status = "ok" =>
        IF meta.current_profile = <<>>
        THEN meta.profile_path = <<>>
        ELSE meta.profile_path = <<meta.current_profile[1].repo_path>>

====
